---- MODULE Spec2Model ----
(***************************************************************************)
(* Model of the HB-NLP artifact pipeline and its Plasticity launcher.      *)
(*                                                                         *)
(* Two implementations of PlasticityEngineDesigner live in the repository: *)
(*   "integration" : src/Scripts/Integration/open_in_plasticity.py         *)
(*   "root"        : src/open_in_plasticity.py                             *)
(* One behaviour of the model follows one of them through a bounded number *)
(* of process runs over a persistent filesystem.  A run either executes    *)
(* main() or constructs a designer and calls open_in_plasticity directly.  *)
(*                                                                         *)
(* Three specifications share the variables:                               *)
(*   Spec     : the launcher and main(), step by step, with the texts of   *)
(*              the files abstracted to tokens;                            *)
(*   EmitSpec : the emitters called in any order on a record drawn from a  *)
(*              bounded set, with the texts rendered character by          *)
(*              character (also EngineVisualizer's diagram emitters);      *)
(*   GeomSpec : create_cylinder and create_cone of                         *)
(*              src/engine_visualization.py on bounded inputs, in a small  *)
(*              binary floating-point arithmetic.                          *)
(***************************************************************************)
EXTENDS Integers, Sequences, FiniteSets

VARIABLES
    impl,          \* which implementation this behaviour follows
    entry,         \* "main" or "launcher": what the current run executes
    run,           \* number of the current process run
    pc,            \* position of the (single-threaded) process
    dirExists,     \* whether the output directory exists
    files,         \* the three output files: [exists, data]
    console,       \* lines printed by the current run
    attempts,      \* subprocess.run calls of the current open_in_plasticity
    proc,          \* the spawned external process: none/running/exit0/exitN
    idx,           \* index of the candidate the for loop is at
    result,        \* return value of open_in_plasticity: none/True/False
    raised,        \* an exception left open_in_plasticity
    attempted,     \* emitters called by the current run
    ioFailed,      \* a filesystem operation of the current run failed
    entryExists,   \* which files existed when open_in_plasticity was entered
    launcherWrote, \* files written from inside open_in_plasticity
    self,          \* the object: [design_data, engine_name]
    constructed,   \* the value of self right after __init__
    scripts,       \* the script texts written so far, each with the method called
    last,          \* the last method called on self and whether it succeeded
    display,       \* the image files and the step display_all_visualizations failed at
    geom           \* the last call of the geometry sampler and what it returned

vars == <<impl, entry, run, pc, dirExists, files, console, attempts, proc, idx,
          result, raised, attempted, ioFailed, entryExists, launcherWrote,
          self, constructed, scripts, last, display, geom>>

\* The state of one launcher run, the state of the object and its emitters,
\* and the state of the geometry sampler.
launchVars == <<entry, run, pc, dirExists, console, attempts, proc, idx, result,
                raised, attempted, ioFailed, entryExists, launcherWrote>>

emitVars == <<self, constructed, scripts, last, display>>

\* ---------------------------------------------------------------- bounds

MaxRuns == 2

MaxPartial == 1

\* --------------------------------------------------------- program data

Impls == {"integration", "root"}

Entries == {"main", "launcher"}

FileNames == {"design", "script", "summary"}

engine_name == "HB-NLP-REV-001"

\* design_file / script_file as each launcher names them.
IntegrationDesignFile == "Docs/Designs/HB-NLP-REV-001/design.json"

IntegrationScriptFile == "Docs/Designs/HB-NLP-REV-001/design_script.py"

RootDesignFile == "HB-NLP-REV-001_design.json"

RootScriptFile == "HB-NLP-REV-001_design_script.py"

DesignFilePath(i) == IF i = "integration" THEN IntegrationDesignFile ELSE RootDesignFile

ScriptFilePath(i) == IF i = "integration" THEN IntegrationScriptFile ELSE RootScriptFile

\* The candidate list of the integration launcher.
plasticity_paths ==
    << "/Applications/Plasticity.app/Contents/MacOS/Plasticity",
       "C:\\Program Files\\Plasticity\\Plasticity.exe",
       "/usr/local/bin/plasticity",
       "plasticity" >>

\* The root launcher probes one binary, by name.
RootCandidates == << "plasticity" >>

\* The binaries an implementation probes, in order.
Candidates(i) == IF i = "integration" THEN plasticity_paths ELSE RootCandidates

\* subprocess.run([path, str(design_file)], check=True)
IntegrationArgv(path) == << path, IntegrationDesignFile >>

\* subprocess.run(["plasticity"], check=True)
RootArgv(path) == << "plasticity" >>

\* The argument vector handed to subprocess.run.
SpawnArgv(i, path) == IF i = "integration" THEN IntegrationArgv(path) ELSE RootArgv(path)

\* ------------------------------------------------------- numbers and text

\* Text is a sequence of pieces; a piece is one character, or a run of
\* characters that needs no escaping and is never split.
Digits == << "0", "1", "2", "3", "4", "5", "6", "7", "8", "9" >>

DigitChar(d) == Digits[d + 1]

IsDigit(c) == \E d \in 1..10 : Digits[d] = c

DigitValue(c) == (CHOOSE d \in 1..10 : Digits[d] = c) - 1

RECURSIVE NatChars(_)
\* str(n) of a non-negative int.
NatChars(n) ==
    IF n < 10 THEN << DigitChar(n) >>
    ELSE Append(NatChars(n \div 10), DigitChar(n % 10))

RECURSIVE NatOfChars(_)
\* int(text) of a run of digits.
NatOfChars(cs) ==
    IF cs = << >> THEN 0
    ELSE 10 * NatOfChars(SubSeq(cs, 1, Len(cs) - 1)) + DigitValue(cs[Len(cs)])

Zeros(k) == [i \in 1..k |-> "0"]

RECURSIVE Join(_)
\* The string a sequence of pieces spells.
Join(cs) ==
    IF cs = << >> THEN ""
    ELSE IF Len(cs) = 1 THEN cs[1]
    ELSE LET h == Len(cs) \div 2
         IN  Join(SubSeq(cs, 1, h)) \o Join(SubSeq(cs, h + 1, Len(cs)))

RECURSIVE Pow10(_)
Pow10(k) == IF k = 0 THEN 1 ELSE 10 * Pow10(k - 1)

RECURSIVE DecNorm(_, _)
\* A float is identified by its shortest decimal: m * 10^e, m not a multiple
\* of ten (the decimal Python's repr prints and float() reads back).
DecNorm(m, e) ==
    IF m = 0 THEN [m |-> 0, e |-> 0]
    ELSE IF m % 10 = 0 THEN DecNorm(m \div 10, e + 1)
    ELSE [m |-> m, e |-> e]

\* repr(x) of a float with 1e-4 <= x < 1e16 (or 0.0): positional notation.
FloatRepr(d) ==
    LET ds == NatChars(d.m)
        n  == Len(ds)
    IN  IF d.e >= 0 THEN ds \o Zeros(d.e) \o << ".", "0" >>
        ELSE IF n > -d.e
             THEN SubSeq(ds, 1, n + d.e) \o << "." >> \o SubSeq(ds, n + d.e + 1, n)
             ELSE << "0", "." >> \o Zeros(-d.e - n) \o ds

RECURSIVE StripTrailingZeros(_)
StripTrailingZeros(cs) ==
    IF cs # << >> /\ cs[Len(cs)] = "0"
    THEN StripTrailingZeros(SubSeq(cs, 1, Len(cs) - 1))
    ELSE cs

\* float(text) of "<digits>.<digits>".
FloatOfChars(ip, fp) ==
    LET f == StripTrailingZeros(fp)
        i == StripTrailingZeros(ip)
    IN  IF f # << >> THEN DecNorm(NatOfChars(ip \o f), -Len(f))
        ELSE IF i = << >> THEN [m |-> 0, e |-> 0]
        ELSE [m |-> NatOfChars(i), e |-> Len(ip) - Len(i)]

\* x / 2 (true division: the result is a float).
HalveKeepingDiameter(d) == d

Halve(d) ==
    IF d.m % 2 = 0 THEN DecNorm(d.m \div 2, d.e) ELSE DecNorm(d.m * 5, d.e - 1)

\* x * 10^k, k of either sign (x / 1e6, x * 100, x / 1e12).
Scale10(d, k) == DecNorm(d.m, d.e + k)

\* format(x, ".1f"): one decimal, the nearest.  A decimal tie is resolved to
\* even here; the records drawn never put a value on one.
Fixed1(d) ==
    IF d.e >= -1
    THEN LET t == d.m * Pow10(d.e + 1)
         IN  NatChars(t \div 10) \o << ".", DigitChar(t % 10) >>
    ELSE LET p == Pow10(-d.e - 1)
             q == d.m \div p
             r == d.m % p
             u == IF 2 * r > p \/ (2 * r = p /\ q % 2 = 1) THEN q + 1 ELSE q
         IN  NatChars(u \div 10) \o << ".", DigitChar(u % 10) >>

RECURSIVE GroupThousands(_)
\* format(n, ","): the digits of an int in groups of three.
GroupThousands(cs) ==
    IF Len(cs) <= 3 THEN cs
    ELSE GroupThousands(SubSeq(cs, 1, Len(cs) - 3)) \o << "," >>
         \o SubSeq(cs, Len(cs) - 2, Len(cs))

\* ------------------------------------------------------------ the record

\* Python values: int, float, str and dict (insertion-ordered).
VInt(n) == [t |-> "int", m |-> n, e |-> 0, s |-> << >>, items |-> << >>]

VFloat(m, e) ==
    [t |-> "float", m |-> DecNorm(m, e).m, e |-> DecNorm(m, e).e, s |-> << >>,
     items |-> << >>]

VStr(cs) == [t |-> "str", m |-> 0, e |-> 0, s |-> cs, items |-> << >>]

VDict(items) == [t |-> "dict", m |-> 0, e |-> 0, s |-> << >>, items |-> items]

KV(k, v) == [k |-> k, v |-> v]

\* d[key]
Get(d, key) == d.items[CHOOSE i \in 1..Len(d.items) : d.items[i].k = key].v

Keys(d) == [i \in 1..Len(d.items) |-> d.items[i].k]

\* The value of an int or a float as a decimal.
Num(v) == DecNorm(v.m, v.e)

\* str(v) inside an f-string.
PyStr(v) ==
    IF v.t = "int" THEN NatChars(v.m)
    ELSE IF v.t = "float" THEN FloatRepr(Num(v))
    ELSE v.s

\* self.design_data as __init__ builds it.
CanonicalDesign ==
    VDict(<<
      KV("name", VStr(<< "HB-NLP Quantum-Classical Hybrid Engine" >>)),
      KV("version", VStr(<< "v25.2.2" >>)),
      KV("specifications", VDict(<<
          KV("thrust", VInt(2000000)),
          KV("specific_impulse", VInt(450)),
          KV("chamber_pressure", VInt(300)),
          KV("expansion_ratio", VFloat(25, 0)),
          KV("efficiency", VFloat(95, -2)),
          KV("technology_readiness_level", VInt(9)) >>)),
      KV("geometry", VDict(<<
          KV("chamber_diameter", VFloat(25, -1)),
          KV("chamber_length", VFloat(3, 0)),
          KV("throat_diameter", VFloat(8, -1)),
          KV("exit_diameter", VFloat(4, 0)),
          KV("nozzle_length", VFloat(6, 0)),
          KV("expansion_angle", VFloat(15, 0)) >>)),
      KV("materials", VDict(<<
          KV("chamber", VStr(<< "Advanced Superalloy" >>)),
          KV("nozzle", VStr(<< "Carbon-Carbon Composite" >>)),
          KV("injector", VStr(<< "Titanium Alloy" >>)),
          KV("turbopump", VStr(<< "Inconel 718" >>)) >>)),
      KV("performance_metrics", VDict(<<
          KV("cfd_convergence", VFloat(998, -3)),
          KV("hardware_utilization", VFloat(87, -2)),
          KV("computation_speed", VFloat(15, 11)),
          KV("memory_usage", VFloat(82, -1)),
          KV("temperature", VFloat(452, -1)),
          KV("power_consumption", VInt(320)) >>)) >>)

\* d with d[group][key] = v.
With(d, group, key, v) ==
    VDict([i \in 1..Len(d.items) |->
        IF d.items[i].k # group THEN d.items[i]
        ELSE KV(group, VDict([j \in 1..Len(d.items[i].v.items) |->
                 IF d.items[i].v.items[j].k = key THEN KV(key, v)
                 ELSE d.items[i].v.items[j]]))])

\* ------------------------------------------------------------------ JSON

EscapePieceRaw(c) == << c >>

\* One character of a str as json.dumps writes it inside the quotes.
EscapePiece(c) ==
    IF c = "\"" THEN << "\\", "\"" >>
    ELSE IF c = "\\" THEN << "\\", "\\" >>
    ELSE IF c = "\n" THEN << "\\", "n" >>
    ELSE << c >>

RECURSIVE EscapeAll(_)
EscapeAll(cs) == IF cs = << >> THEN << >> ELSE EscapePiece(cs[1]) \o EscapeAll(Tail(cs))

JsonString(cs) == << "\"" >> \o EscapeAll(cs) \o << "\"" >>

\* The newline and indentation json.dump(..., indent=2) puts before an item.
NewlineIndent(level) == << "\n" >> \o [i \in 1..level |-> "  "]

RECURSIVE JsonEncode(_, _)
RECURSIVE JsonMembers(_, _, _)
\* The members of a dict from the i-th on, in insertion order.
JsonMembers(items, i, level) ==
    IF i > Len(items) THEN << >>
    ELSE NewlineIndent(level) \o JsonString(<< items[i].k >>) \o << ":", " " >>
         \o JsonEncode(items[i].v, level)
         \o (IF i < Len(items) THEN << "," >> ELSE << >>)
         \o JsonMembers(items, i + 1, level)

\* json.JSONEncoder(indent=2).iterencode(v), at nesting depth level.
JsonEncode(v, level) ==
    IF v.t = "int" THEN NatChars(v.m)
    ELSE IF v.t = "float" THEN FloatRepr(Num(v))
    ELSE IF v.t = "str" THEN JsonString(v.s)
    ELSE IF v.items = << >> THEN << "{", "}" >>
    ELSE << "{" >> \o JsonMembers(v.items, 1, level + 1) \o NewlineIndent(level)
         \o << "}" >>

JsonDumpReversed(d) ==
    JsonEncode(VDict([i \in 1..Len(d.items) |-> d.items[Len(d.items) + 1 - i]]), 0)

\* json.dump(self.design_data, f, indent=2): the text written to the file.
JsonDump(d) == JsonEncode(d, 0)

VError == [t |-> "error", m |-> 0, e |-> 0, s |-> << >>, items |-> << >>]

RECURSIVE SkipWs(_)
SkipWs(cs) ==
    IF cs # << >> /\ cs[1] \in {" ", "  ", "\n"} THEN SkipWs(Tail(cs)) ELSE cs

RECURSIVE TakeDigits(_, _)
\* The longest run of digits cs starts with, and what follows it.
TakeDigits(cs, acc) ==
    IF cs # << >> /\ IsDigit(cs[1]) THEN TakeDigits(Tail(cs), Append(acc, cs[1]))
    ELSE [v |-> acc, rest |-> cs]

\* A JSON number: an int unless it has a fraction part.
ParseNumber(cs) ==
    LET ip == TakeDigits(cs, << >>)
    IN  IF ip.rest # << >> /\ ip.rest[1] = "."
        THEN LET fp == TakeDigits(Tail(ip.rest), << >>)
                 d  == FloatOfChars(ip.v, fp.v)
             IN  [v |-> VFloat(d.m, d.e), rest |-> fp.rest]
        ELSE [v |-> VInt(NatOfChars(ip.v)), rest |-> ip.rest]

RECURSIVE ParseStringBody(_, _)
\* The characters up to the closing quote, escapes undone.
ParseStringBody(cs, acc) ==
    IF cs = << >> THEN [v |-> VError, rest |-> << >>]
    ELSE IF cs[1] = "\"" THEN [v |-> VStr(acc), rest |-> Tail(cs)]
    ELSE IF cs[1] = "\\"
         THEN IF Len(cs) < 2 THEN [v |-> VError, rest |-> << >>]
              ELSE ParseStringBody(SubSeq(cs, 3, Len(cs)),
                                   Append(acc, IF cs[2] = "n" THEN "\n" ELSE cs[2]))
    ELSE ParseStringBody(Tail(cs), Append(acc, cs[1]))

RECURSIVE ParseValue(_)
RECURSIVE ParseMembers(_, _)
\* The members of an object after "{" or ",", up to the closing brace.
ParseMembers(cs0, acc) ==
    LET cs == SkipWs(cs0)
    IN  IF cs = << >> \/ cs[1] # "\"" THEN [v |-> VError, rest |-> << >>]
        ELSE LET key   == ParseStringBody(Tail(cs), << >>)
                 colon == SkipWs(key.rest)
             IN  IF key.v.t = "error" \/ colon = << >> \/ colon[1] # ":"
                 THEN [v |-> VError, rest |-> << >>]
                 ELSE LET val  == ParseValue(Tail(colon))
                          more == SkipWs(val.rest)
                          got  == Append(acc, KV(Join(key.v.s), val.v))
                      IN  IF val.v.t = "error" \/ more = << >>
                          THEN [v |-> VError, rest |-> << >>]
                          ELSE IF more[1] = "," THEN ParseMembers(Tail(more), got)
                          ELSE IF more[1] = "}" THEN [v |-> VDict(got), rest |-> Tail(more)]
                          ELSE [v |-> VError, rest |-> << >>]

\* One JSON value at the head of cs, and the text after it.
ParseValue(cs0) ==
    LET cs == SkipWs(cs0)
    IN  IF cs = << >> THEN [v |-> VError, rest |-> << >>]
        ELSE IF cs[1] = "{"
             THEN LET body == SkipWs(Tail(cs))
                  IN  IF body # << >> /\ body[1] = "}"
                      THEN [v |-> VDict(<< >>), rest |-> Tail(body)]
                      ELSE ParseMembers(body, << >>)
        ELSE IF cs[1] = "\"" THEN ParseStringBody(Tail(cs), << >>)
        ELSE IF IsDigit(cs[1]) THEN ParseNumber(cs)
        ELSE [v |-> VError, rest |-> << >>]

\* json.load(f): the value the whole text denotes.
JsonLoad(text) ==
    LET r == ParseValue(text)
    IN  IF r.v.t # "error" /\ SkipWs(r.rest) = << >> THEN r.v ELSE VError

\* ---------------------------------------------------------------- script

\* One statement of the generated script: a comment, a blank line, a builder
\* call assigned to a name, the assembly, an export, or other literal text.
Stmt(kind, target, fn, args) == [kind |-> kind, target |-> target, fn |-> fn, args |-> args]

Arg(k, v) == [k |-> k, v |-> v]

Comment(text) == Stmt("comment", "", text, << >>)

Blank == Stmt("blank", "", "", << >>)

Quoted(cs) == << "\"" >> \o cs \o << "\"" >>

\* {x/2} in the f-string: true division, printed with str().
HalfOf(v) == FloatRepr(Halve(Num(v)))

\* The five primitives, the same in both implementations.
Primitives(d) ==
    LET g == Get(d, "geometry")
        m == Get(d, "materials")
    IN  << Comment("Engine Chamber"),
           Stmt("builder", "chamber", "create_cylinder",
                << Arg("radius", HalfOf(Get(g, "chamber_diameter"))),
                   Arg("height", PyStr(Get(g, "chamber_length"))),
                   Arg("material", Quoted(PyStr(Get(m, "chamber")))) >>),
           Blank,
           Comment("Throat Section"),
           Stmt("builder", "throat", "create_cylinder",
                << Arg("radius", HalfOf(Get(g, "throat_diameter"))),
                   Arg("height", << "0.5" >>),
                   Arg("material", Quoted(PyStr(Get(m, "chamber")))) >>),
           Blank,
           Comment("Nozzle (Conical)"),
           Stmt("builder", "nozzle", "create_cone",
                << Arg("base_radius", HalfOf(Get(g, "exit_diameter"))),
                   Arg("top_radius", HalfOf(Get(g, "throat_diameter"))),
                   Arg("height", PyStr(Get(g, "nozzle_length"))),
                   Arg("material", Quoted(PyStr(Get(m, "nozzle")))) >>),
           Blank,
           Comment("Injector System"),
           Stmt("builder", "injector", "create_cylinder",
                << Arg("radius", << "0.3" >>),
                   Arg("height", << "0.8" >>),
                   Arg("material", Quoted(PyStr(Get(m, "injector")))) >>),
           Blank,
           Comment("Turbopump"),
           Stmt("builder", "turbopump", "create_cylinder",
                << Arg("radius", << "0.4" >>),
                   Arg("height", << "1.2" >>),
                   Arg("material", Quoted(PyStr(Get(m, "turbopump")))) >>),
           Blank >>

PrimitiveNames ==
    << Arg("", << "chamber" >>), Arg("", << "throat" >>), Arg("", << "nozzle" >>),
       Arg("", << "injector" >>), Arg("", << "turbopump" >>) >>

ScriptHeader(name) ==
    << Blank,
       Comment("HB-NLP Revolutionary Engine Design Script for Plasticity"),
       Comment("Engine: " \o name),
       Blank >>

\* script_content of the integration emitter.
IntegrationScript(d, name) ==
    ScriptHeader(name) \o Primitives(d) \o
    << Comment("Assembly"),
       Stmt("assembly", "engine_assembly", "union", PrimitiveNames),
       Blank,
       Comment("Export"),
       Stmt("export", "", "export_stl",
            << Arg("", << "engine_assembly" >>),
               Arg("", Quoted(<< name, "_3d_model.stl" >>)) >>),
       Stmt("export", "", "export_step",
            << Arg("", << "engine_assembly" >>),
               Arg("", Quoted(<< name, "_3d_model.step" >>)) >>) >>

\* script_content of the root emitter.  The non-ASCII characters of the
\* source's comments and of its print statement are left out.
RootScript(d, name) ==
    ScriptHeader(name) \o Primitives(d) \o
    << Comment("Assembly"),
       Stmt("assembly", "engine", "assemble", PrimitiveNames),
       Blank,
       Comment("Apply materials and properties"),
       Stmt("call", "", "set_material_properties",
            << Arg("", << "set_material_properties(engine, {" >>),
               Arg("", << "    \"density\": 8000,  # kg/m3" >>),
               Arg("", << "    \"thermal_conductivity\": 25,  # W/m.K" >>),
               Arg("", << "    \"yield_strength\": 500e6,  # 500 MPa" >>),
               Arg("", << "    \"temperature_limit\": 2500  # K" >>),
               Arg("", << "})" >>) >>),
       Blank,
       Comment("Set analysis parameters"),
       Stmt("call", "", "set_analysis_parameters",
            << Arg("", << "set_analysis_parameters({" >>),
               Arg("", << "    \"cfd_enabled\": True," >>),
               Arg("", << "    \"thermal_analysis\": True," >>),
               Arg("", << "    \"structural_analysis\": True," >>),
               Arg("", << "    \"mesh_resolution\": \"fine\"," >>),
               Arg("", << "    \"convergence_criteria\": 1e-6" >>),
               Arg("", << "})" >>) >>),
       Blank,
       Comment("Export model"),
       Stmt("export", "", "export_model",
            << Arg("", Quoted(<< name, "_3d_model.stl" >>)) >>),
       Stmt("call", "", "print",
            << Arg("", << "print(\"HB-NLP Revolutionary Engine 3D model created successfully!\")" >>) >>) >>

ScriptStatements(i, d, name) ==
    IF i = "integration" THEN IntegrationScript(d, name) ELSE RootScript(d, name)

RECURSIVE CommaJoin(_)
CommaJoin(args) ==
    IF args = << >> THEN ""
    ELSE IF Len(args) = 1 THEN Join(args[1].v)
    ELSE Join(args[1].v) \o ", " \o CommaJoin(Tail(args))

\* The lines of text one statement occupies.
RenderStatement(st) ==
    IF st.kind = "comment" THEN << "# " \o st.fn >>
    ELSE IF st.kind = "blank" THEN << "" >>
    ELSE IF st.kind = "builder"
         THEN << st.target \o " = " \o st.fn \o "(" >>
              \o [j \in 1..Len(st.args) |->
                    "    " \o st.args[j].k \o "=" \o Join(st.args[j].v)
                    \o (IF j < Len(st.args) THEN "," ELSE "")]
              \o << ")" >>
    ELSE IF st.kind = "assembly"
         THEN << st.target \o " = " \o st.fn \o "([" \o CommaJoin(st.args) \o "])" >>
    ELSE IF st.kind = "export"
         THEN << st.fn \o "(" \o CommaJoin(st.args) \o ")" >>
    ELSE [j \in 1..Len(st.args) |-> Join(st.args[j].v)]

RECURSIVE RenderScript(_)
\* The lines of the whole script.
RenderScript(sts) ==
    IF sts = << >> THEN << >>
    ELSE IF Len(sts) = 1 THEN RenderStatement(sts[1])
    ELSE LET h == Len(sts) \div 2
         IN  RenderScript(SubSeq(sts, 1, h)) \o RenderScript(SubSeq(sts, h + 1, Len(sts)))

\* --------------------------------------------------------------- summary

\* format(x, ".<n>f") for n >= 1: n decimals, the nearest (no drawn value
\* lies on a decimal tie).
Fixed(d, n) ==
    LET p == IF d.e >= -n THEN 1 ELSE Pow10(-d.e - n)
        t == IF d.e >= -n THEN d.m * Pow10(d.e + n) ELSE d.m \div p
        r == IF d.e >= -n THEN 0 ELSE d.m % p
        u == IF 2 * r > p \/ (2 * r = p /\ t % 2 = 1) THEN t + 1 ELSE t
        f == NatChars(u % Pow10(n))
    IN  NatChars(u \div Pow10(n)) \o << "." >> \o Zeros(n - Len(f)) \o f

\* "- **Thrust**: {thrust:,} N ({thrust/1e6:.1f} MN)"
ThrustLineWithoutSeparators(v) ==
    Join(<< "- **Thrust**: " >> \o PyStr(v) \o << " N (" >>
         \o Fixed1(Scale10(Num(v), -6)) \o << " MN)" >>)

ThrustLine(v) ==
    Join(<< "- **Thrust**: " >> \o GroupThousands(PyStr(v)) \o << " N (" >>
         \o Fixed1(Scale10(Num(v), -6)) \o << " MN)" >>)

\* "- **Efficiency**: {efficiency*100:.1f}%"
EfficiencyLine(v) ==
    Join(<< "- **Efficiency**: " >> \o Fixed1(Scale10(Num(v), 2)) \o << "%" >>)

\* "- **Computation Speed**: {computation_speed/1e12:.1f} TFLOPS"
ComputationSpeedLine(v) ==
    Join(<< "- **Computation Speed**: " >> \o Fixed1(Scale10(Num(v), -12))
         \o << " TFLOPS" >>)

\* "- **<label>**: {value}<unit>"
FieldLine(label, v, unit) ==
    Join(<< "- **", label, "**: " >> \o PyStr(v) \o << unit >>)

\* summary of the integration emitter, line by line.  The check mark and the
\* degree sign of the source are left out of the literal text.
IntegrationSummary(d, name) ==
    LET s == Get(d, "specifications")
        g == Get(d, "geometry")
        m == Get(d, "materials")
        p == Get(d, "performance_metrics")
    IN  << "",
           "# HB-NLP Revolutionary Engine Design Summary",
           "",
           "## Engine Specifications",
           FieldLine("Name", Get(d, "name"), ""),
           FieldLine("Version", Get(d, "version"), ""),
           ThrustLine(Get(s, "thrust")),
           FieldLine("Specific Impulse", Get(s, "specific_impulse"), " s"),
           EfficiencyLine(Get(s, "efficiency")),
           FieldLine("Technology Readiness Level",
                     Get(s, "technology_readiness_level"), ""),
           "",
           "## Geometry",
           FieldLine("Chamber Diameter", Get(g, "chamber_diameter"), " m"),
           FieldLine("Chamber Length", Get(g, "chamber_length"), " m"),
           FieldLine("Throat Diameter", Get(g, "throat_diameter"), " m"),
           FieldLine("Exit Diameter", Get(g, "exit_diameter"), " m"),
           FieldLine("Nozzle Length", Get(g, "nozzle_length"), " m"),
           "",
           "## Materials",
           FieldLine("Chamber", Get(m, "chamber"), ""),
           FieldLine("Nozzle", Get(m, "nozzle"), ""),
           FieldLine("Injector", Get(m, "injector"), ""),
           FieldLine("Turbopump", Get(m, "turbopump"), ""),
           "",
           "## Performance Metrics",
           Join(<< "- **CFD Convergence**: " >>
                \o Fixed(Num(Get(p, "cfd_convergence")), 3)),
           Join(<< "- **Hardware Utilization**: " >>
                \o Fixed(Num(Get(p, "hardware_utilization")), 2)),
           ComputationSpeedLine(Get(p, "computation_speed")),
           FieldLine("Memory Usage", Get(p, "memory_usage"), " GB"),
           FieldLine("Temperature", Get(p, "temperature"), "C"),
           FieldLine("Power Consumption", Get(p, "power_consumption"), " W"),
           "",
           "## Status: PRODUCTION READY" >>

\* summary of the root emitter, line by line.
RootSummary(d, name) ==
    LET s == Get(d, "specifications")
        g == Get(d, "geometry")
        m == Get(d, "materials")
        p == Get(d, "performance_metrics")
    IN  << "",
           "# HB-NLP Revolutionary Engine Design Summary",
           "",
           "## Engine Specifications",
           FieldLine("Name", Get(d, "name"), ""),
           Join(<< "- **Model ID**: ", name >>),
           FieldLine("Version", Get(d, "version"), ""),
           "",
           "## Performance Specifications",
           ThrustLine(Get(s, "thrust")),
           FieldLine("Specific Impulse", Get(s, "specific_impulse"), " s"),
           FieldLine("Chamber Pressure", Get(s, "chamber_pressure"), " bar"),
           FieldLine("Expansion Ratio", Get(s, "expansion_ratio"), ":1"),
           EfficiencyLine(Get(s, "efficiency")),
           FieldLine("Technology Readiness Level",
                     Get(s, "technology_readiness_level"), ""),
           "",
           "## Geometry",
           FieldLine("Chamber Diameter", Get(g, "chamber_diameter"), " m"),
           FieldLine("Chamber Length", Get(g, "chamber_length"), " m"),
           FieldLine("Throat Diameter", Get(g, "throat_diameter"), " m"),
           FieldLine("Exit Diameter", Get(g, "exit_diameter"), " m"),
           FieldLine("Nozzle Length", Get(g, "nozzle_length"), " m"),
           FieldLine("Expansion Angle", Get(g, "expansion_angle"), ""),
           "",
           "## Materials",
           FieldLine("Chamber", Get(m, "chamber"), ""),
           FieldLine("Nozzle", Get(m, "nozzle"), ""),
           FieldLine("Injector", Get(m, "injector"), ""),
           FieldLine("Turbopump", Get(m, "turbopump"), ""),
           "",
           "## Analysis Results",
           Join(<< "- **CFD Convergence**: " >>
                \o Fixed1(Scale10(Num(Get(p, "cfd_convergence")), 2)) \o << "%" >>),
           Join(<< "- **Hardware Utilization**: " >>
                \o Fixed1(Scale10(Num(Get(p, "hardware_utilization")), 2)) \o << "%" >>),
           ComputationSpeedLine(Get(p, "computation_speed")),
           FieldLine("Memory Usage", Get(p, "memory_usage"), " GB"),
           FieldLine("Temperature", Get(p, "temperature"), "C"),
           FieldLine("Power Consumption", Get(p, "power_consumption"), " W"),
           "",
           "## Revolutionary Features",
           "Quantum-Classical Hybrid Computing",
           "Advanced Multi-Physics Coupling",
           "Real-time 3D Modeling and Simulation",
           "Hardware-Accelerated CFD Analysis",
           "AI-Driven Optimization",
           "Digital Twin Integration",
           "Variable Geometry Capabilities",
           "Nuclear Thermal Propulsion Ready",
           "",
           "## Technology Breakthroughs",
           "- **Beyond SpaceX Capabilities**: Advanced propulsion technology",
           "- **Quantum Advantage**: Hybrid quantum-classical computing",
           "- **Revolutionary Efficiency**: 95% operational efficiency",
           "- **Production Ready**: TRL 9 achieved",
           "- **Scalable Architecture**: Modular design for various applications",
           "",
           "---",
           "*HB-NLP Research Lab - Revolutionary Aerospace Technology*" >>

Summary(i, d, name) ==
    IF i = "integration" THEN IntegrationSummary(d, name) ELSE RootSummary(d, name)

\* Text written by json.dump(self.design_data, f, indent=2), one token per
\* top-level member.
DesignJsonText ==
    << "{", "name", "version", "specifications", "geometry", "materials",
       "performance_metrics", "}" >>

\* Text written by generate_3d_model_script, one token per statement.
IntegrationScriptText ==
    << "header", "chamber", "throat", "nozzle", "injector", "turbopump",
       "union", "export_stl", "export_step" >>

RootScriptText ==
    << "header", "chamber", "throat", "nozzle", "injector", "turbopump",
       "assemble", "set_material_properties", "set_analysis_parameters",
       "export_model", "print" >>

ScriptText(i) == IF i = "integration" THEN IntegrationScriptText ELSE RootScriptText

\* Text written by create_design_summary, one token per section.
IntegrationSummaryText ==
    << "title", "specifications", "geometry", "materials",
       "performance_metrics", "status" >>

RootSummaryText ==
    << "title", "specifications", "performance", "geometry", "materials",
       "analysis", "features", "breakthroughs", "footer" >>

SummaryText(i) == IF i = "integration" THEN IntegrationSummaryText ELSE RootSummaryText

Content(i, f) ==
    IF f = "design" THEN DesignJsonText
    ELSE IF f = "script" THEN ScriptText(i)
    ELSE SummaryText(i)

\* Foreign content a file may hold before the first run.
StaleText == << "stale", "stale", "stale", "stale", "stale", "stale", "stale",
                "stale", "stale", "stale", "stale", "stale" >>

Absent == [exists |-> FALSE, data |-> << >>]

\* No call of the geometry sampler yet.
NoCall == [fn |-> "none"]

\* The three diagrams, named by what follows engine_name in the name of
\* the image file: f'{self.engine_name}_3d_model.png' and so on.
ImageNames == {"3d_model", "performance_dashboard", "flow_diagram"}

\* What display_all_visualizations does, in order: the three figures are
\* built, then each is saved, then all are shown.  No step is inside a try.
DisplaySteps ==
    << [do |-> "render", of |-> "3d_model"],
       [do |-> "render", of |-> "performance_dashboard"],
       [do |-> "render", of |-> "flow_diagram"],
       [do |-> "save", of |-> "3d_model"],
       [do |-> "save", of |-> "performance_dashboard"],
       [do |-> "save", of |-> "flow_diagram"],
       [do |-> "show", of |-> "all"] >>

NoFailure == [do |-> "none", of |-> "none"]

\* No image file yet and no display_all_visualizations call.
NoDisplay == [images |-> [n \in ImageNames |-> "absent"], failed |-> NoFailure]

\* ------------------------------------------------------ filesystem writes

WriteOutcomes == {"ok", "open_error", "write_error"}

WriteFileAppending(old, text, outcome, k) ==
    IF outcome = "ok" THEN [exists |-> TRUE, data |-> old.data \o text]
    ELSE IF outcome = "open_error" THEN old
    ELSE [exists |-> TRUE, data |-> old.data \o SubSeq(text, 1, k)]

\* with open(path, "w") as f: f.write(text).  Opening for "w" truncates; an
\* error at open leaves the file as it was, an error while writing leaves the
\* first k tokens.
WriteFile(old, text, outcome, k) ==
    IF outcome = "ok" THEN [exists |-> TRUE, data |-> text]
    ELSE IF outcome = "open_error" THEN old
    ELSE [exists |-> TRUE, data |-> SubSeq(text, 1, k)]

\* ------------------------------------------------------ exception handling

SpawnErrors == {"FileNotFoundError", "PermissionError"}

\* except (subprocess.CalledProcessError, FileNotFoundError): continue
IntegrationInnerCaught(exc) == exc \in {"CalledProcessError", "FileNotFoundError"}

\* except subprocess.CalledProcessError as e:
RootInnerCaught(exc) == exc = "CalledProcessError"

\* The except clause around subprocess.run.
InnerCaught(i, exc) ==
    IF i = "integration" THEN IntegrationInnerCaught(exc) ELSE RootInnerCaught(exc)

OuterCaughtSubprocessOnly(exc) ==
    exc \in {"CalledProcessError", "FileNotFoundError"}

\* except Exception as e: every exception the body can raise is an Exception.
OuterCaught(exc) ==
    exc \in {"CalledProcessError", "FileNotFoundError", "PermissionError", "OSError"}

IntegrationNeedsCreateNever(exists) ==
    FALSE

\* if not design_file.exists(): / if not script_file.exists():
IntegrationNeedsCreate(exists) ==
    ~exists

\* The root launcher regenerates both files unconditionally.
RootNeedsCreate(exists) ==
    TRUE

NeedsCreate(i, exists) ==
    IF i = "integration" THEN IntegrationNeedsCreate(exists) ELSE RootNeedsCreate(exists)

NextCandidateRetry(i) ==
    i

\* "continue" in the for loop over plasticity_paths.
NextCandidate(i) ==
    i + 1

RunReturnsAtOnce(p) ==
    TRUE

\* subprocess.run(..., check=True) returns (or raises CalledProcessError) only
\* once the child has exited.
RunReturns(p) ==
    p \in {"exit0", "exitN"}

\* An exception reaching the outer try of open_in_plasticity.
LauncherRaise(exc, con) ==
    IF OuterCaught(exc)
    THEN /\ console' = Append(con, "error_opening")
         /\ result' = "False"
         /\ raised' = FALSE
         /\ pc' = "oip_return"
    ELSE /\ console' = Append(con, "traceback")
         /\ result' = result
         /\ raised' = TRUE
         /\ pc' = "crashed"

SetOutcome(as, o) ==
    [as EXCEPT ![Len(as)] = [@ EXCEPT !.outcome = o]]

\* ------------------------------------------------------------------ Init

Init ==
    /\ impl \in Impls
    /\ entry \in Entries
    /\ run = 1
    /\ pc = "start"
    /\ dirExists \in BOOLEAN
    /\ files \in [FileNames -> {Absent, [exists |-> TRUE, data |-> StaleText]}]
    /\ (impl = "root" => dirExists)
    /\ (~dirExists => \A f \in FileNames : ~files[f].exists)
    /\ console = << >>
    /\ attempts = << >>
    /\ proc = "none"
    /\ idx = 1
    /\ result = "none"
    /\ raised = FALSE
    /\ attempted = {}
    /\ ioFailed = FALSE
    /\ entryExists = [f \in FileNames |-> FALSE]
    /\ launcherWrote = {}
    /\ self = [design_data |-> CanonicalDesign, engine_name |-> engine_name]
    /\ constructed = self
    /\ scripts = {}
    /\ last = [op |-> "__init__", ok |-> TRUE]
    /\ display = NoDisplay
    /\ geom = NoCall

\* --------------------------------------------------------------- actions

\* PlasticityEngineDesigner(): the integration constructor creates the design
\* directory; the root constructor touches nothing.  main() of the root file
\* prints its banner first.
Construct ==
    /\ pc = "start"
    /\ \E ok \in BOOLEAN :
        /\ (impl = "root" \/ dirExists) => ok
        /\ IF ok
           THEN /\ dirExists' = TRUE
                /\ ioFailed' = ioFailed
                /\ pc' = IF entry = "main" THEN "main_design" ELSE "oip_design"
                /\ console' = IF impl = "root" /\ entry = "main"
                              THEN Append(console, "main_banner") ELSE console
           ELSE /\ dirExists' = dirExists
                /\ ioFailed' = TRUE
                /\ pc' = "crashed"
                /\ console' = Append(console, "traceback")
    /\ entryExists' = IF entry = "launcher" THEN [f \in FileNames |-> files[f].exists]
                      ELSE entryExists
    /\ UNCHANGED <<impl, entry, run, files, attempts, proc, idx, result, raised,
                   attempted, launcherWrote>>
    /\ UNCHANGED <<emitVars, geom>>

\* An emitter called from main(): an I/O error is not handled anywhere.
MainEmit(f, at, next, extra) ==
    /\ pc = at
    /\ entry = "main"
    /\ \E o \in WriteOutcomes, k \in 0..MaxPartial :
        /\ (o = "write_error" \/ k = 0)
        /\ files' = [files EXCEPT ![f] = WriteFile(files[f], Content(impl, f), o, k)]
        /\ IF o = "ok"
           THEN /\ console' = Append(console, "created_" \o f) \o extra
                /\ pc' = next
                /\ ioFailed' = ioFailed
           ELSE /\ console' = Append(console, "traceback")
                /\ pc' = "crashed"
                /\ ioFailed' = TRUE
    /\ attempted' = attempted \cup {f}
    /\ entryExists' = IF next = "oip_design" THEN [g \in FileNames |-> files'[g].exists]
                      ELSE entryExists
    /\ UNCHANGED <<impl, entry, run, dirExists, attempts, proc, idx, result, raised,
                   launcherWrote>>
    /\ UNCHANGED <<emitVars, geom>>

MainCreateDesignFile == MainEmit("design", "main_design", "main_script", << >>)

MainGenerateScript == MainEmit("script", "main_script", "main_summary", << >>)

MainCreateSummary ==
    MainEmit("summary", "main_summary", "oip_design",
             IF impl = "root" THEN << "generated_files", "opening_design" >> ELSE << >>)

\* An emitter called from inside open_in_plasticity's outer try.
LauncherEmit(f, at, next, extra) ==
    /\ pc = at
    /\ IF NeedsCreate(impl, files[f].exists)
       THEN \E o \in WriteOutcomes, k \in 0..MaxPartial :
              /\ (o = "write_error" \/ k = 0)
              /\ files' = [files EXCEPT ![f] = WriteFile(files[f], Content(impl, f), o, k)]
              /\ attempted' = attempted \cup {f}
              /\ launcherWrote' = launcherWrote \cup {f}
              /\ IF o = "ok"
                 THEN /\ console' = Append(console, "created_" \o f) \o extra
                      /\ pc' = next
                      /\ ioFailed' = ioFailed
                      /\ UNCHANGED <<result, raised>>
                 ELSE /\ LauncherRaise("OSError", console)
                      /\ ioFailed' = TRUE
       ELSE /\ pc' = next
            /\ console' = console \o extra
            /\ UNCHANGED <<files, attempted, launcherWrote, ioFailed, result, raised>>
    /\ UNCHANGED <<impl, entry, run, dirExists, attempts, proc, idx, entryExists>>
    /\ UNCHANGED <<emitVars, geom>>

LauncherEnsureDesign == LauncherEmit("design", "oip_design", "oip_script", << >>)

LauncherEnsureScript ==
    LauncherEmit("script", "oip_script", "oip_spawn",
                 IF impl = "root"
                 THEN << "opening_banner", "design_file_path", "script_file_path",
                         "engine_name" >>
                 ELSE << >>)

\* What the launcher does with an exception of one subprocess.run call.
SpawnFailed(exc, as) ==
    /\ attempts' = as
    /\ IF InnerCaught(impl, exc)
       THEN IF impl = "integration"
            THEN /\ idx' = NextCandidate(idx)
                 /\ pc' = "oip_spawn"
                 /\ UNCHANGED <<console, result, raised>>
            ELSE /\ console' = console \o << "could_not_launch", "manual_hint" >>
                 /\ result' = "True"
                 /\ pc' = "oip_return"
                 /\ UNCHANGED <<idx, raised>>
       ELSE /\ LauncherRaise(exc, console)
            /\ UNCHANGED idx

\* subprocess.run starts the candidate: the binary is missing, cannot be
\* executed, or the child process starts.
Spawn ==
    /\ pc = "oip_spawn"
    /\ idx <= Len(Candidates(impl))
    /\ LET path == Candidates(impl)[idx]
           call == [path |-> path, argv |-> SpawnArgv(impl, path), outcome |-> "running"]
       IN  \E o \in SpawnErrors \cup {"started"} :
             IF o = "started"
             THEN /\ attempts' = Append(attempts, call)
                  /\ proc' = "running"
                  /\ pc' = "oip_wait"
                  /\ UNCHANGED <<console, result, raised, idx>>
             ELSE /\ SpawnFailed(o, Append(attempts, [call EXCEPT !.outcome = o]))
                  /\ proc' = proc
    /\ UNCHANGED <<impl, entry, run, dirExists, files, attempted, ioFailed,
                   entryExists, launcherWrote>>
    /\ UNCHANGED <<emitVars, geom>>

\* The external application terminates, with status 0 or not.
ProcExit ==
    /\ proc = "running"
    /\ \E p \in {"exit0", "exitN"} : proc' = p
    /\ UNCHANGED <<impl, entry, run, pc, dirExists, files, console, attempts, idx,
                   result, raised, attempted, ioFailed, entryExists, launcherWrote>>
    /\ UNCHANGED <<emitVars, geom>>

\* subprocess.run returns: check=True turns a non-zero status into
\* CalledProcessError, otherwise the launcher reports success.
Wait ==
    /\ pc = "oip_wait"
    /\ RunReturns(proc)
    /\ IF proc = "exitN"
       THEN SpawnFailed("CalledProcessError", SetOutcome(attempts, "CalledProcessError"))
       ELSE /\ attempts' = SetOutcome(attempts, IF proc = "exit0" THEN "ok" ELSE "running")
            /\ console' = IF impl = "integration" THEN Append(console, "opened")
                          ELSE console \o << "launched", "instructions" >>
            /\ result' = "True"
            /\ pc' = "oip_return"
            /\ UNCHANGED <<idx, raised>>
    /\ UNCHANGED <<impl, entry, run, dirExists, files, proc, attempted, ioFailed,
                   entryExists, launcherWrote>>
    /\ UNCHANGED <<emitVars, geom>>

\* The for loop ran out of candidates.
Exhausted ==
    /\ pc = "oip_spawn"
    /\ idx > Len(Candidates(impl))
    /\ console' = console \o << "plasticity_not_found", "design_file_path",
                                "script_file_path" >>
    /\ result' = "False"
    /\ pc' = "oip_return"
    /\ UNCHANGED <<impl, entry, run, dirExists, files, attempts, proc, idx, raised,
                   attempted, ioFailed, entryExists, launcherWrote>>
    /\ UNCHANGED <<emitVars, geom>>

\* open_in_plasticity has returned to its caller; main() of the root file
\* reports the value it got.
Finish ==
    /\ pc = "oip_return"
    /\ console' = IF impl = "root" /\ entry = "main"
                  THEN Append(console, IF result = "True" THEN "design_ready"
                                       ELSE "manual_steps")
                  ELSE console
    /\ pc' = "done"
    /\ UNCHANGED <<impl, entry, run, dirExists, files, attempts, proc, idx, result,
                   raised, attempted, ioFailed, entryExists, launcherWrote>>
    /\ UNCHANGED <<emitVars, geom>>

\* The program is started again over the same filesystem.
Rerun ==
    /\ pc \in {"done", "crashed"}
    /\ run < MaxRuns
    /\ run' = run + 1
    /\ entry' \in Entries
    /\ pc' = "start"
    /\ console' = << >>
    /\ attempts' = << >>
    /\ proc' = "none"
    /\ idx' = 1
    /\ result' = "none"
    /\ raised' = FALSE
    /\ attempted' = {}
    /\ ioFailed' = FALSE
    /\ entryExists' = [f \in FileNames |-> FALSE]
    /\ launcherWrote' = {}
    /\ UNCHANGED <<impl, dirExists, files>>
    /\ UNCHANGED <<emitVars, geom>>

Next ==
    \/ Construct
    \/ MainCreateDesignFile
    \/ MainGenerateScript
    \/ MainCreateSummary
    \/ LauncherEnsureDesign
    \/ LauncherEnsureScript
    \/ Spawn
    \/ ProcExit
    \/ Wait
    \/ Exhausted
    \/ Finish
    \/ Rerun

Spec == Init /\ [][Next]_vars

\* ------------------------------------------------------- claim vocabulary

\* open_in_plasticity has handed a value back to its caller.
Returned == pc \in {"oip_return", "done"} /\ result # "none"

SpawnFailures == {"FileNotFoundError", "CalledProcessError"}

Printed(line) == \E i \in 1..Len(console) : console[i] = line

\* The "Plasticity not found. Please open manually:" block with both paths.
ManualWithPaths ==
    \E i \in 1..Len(console) :
        /\ i + 2 <= Len(console)
        /\ console[i] = "plasticity_not_found"
        /\ console[i + 1] = "design_file_path"
        /\ console[i + 2] = "script_file_path"

\* Any text telling the user to open the application by hand.
ManualRecoveryPrinted == Printed("plasticity_not_found") \/ Printed("manual_hint")

AllCandidatesTried == Len(attempts) = Len(Candidates(impl))

\* ------------------------------------------------------------------- C1

\* C1: in one call of the integration launcher the spawn attempts are a
\* prefix of the fixed four-element list, in that order: at most four
\* attempts, the i-th attempt is the i-th candidate, and every attempt but
\* the last one has failed (none follows a success, none is retried).
C1_AttemptsArePrefix ==
    impl = "integration" =>
        LET fixed == << "/Applications/Plasticity.app/Contents/MacOS/Plasticity",
                        "C:\\Program Files\\Plasticity\\Plasticity.exe",
                        "/usr/local/bin/plasticity",
                        "plasticity" >>
        IN  /\ Len(attempts) <= 4
            /\ \A i \in 1..Len(attempts) :
                 /\ attempts[i].path = fixed[i]
                 /\ (i < Len(attempts) => attempts[i].outcome \in SpawnFailures)
            /\ (Returned /\ attempts # << >> /\ attempts[Len(attempts)].outcome = "ok"
                    => result = "True")

C1_Witness ==
    /\ impl = "integration"
    /\ Len(attempts) = 4
    /\ attempts[1].outcome = "FileNotFoundError"
    /\ attempts[3].outcome = "CalledProcessError"
    /\ attempts[4].outcome = "ok"
    /\ Returned

\* ------------------------------------------------------------------- C2

\* C2: when every candidate binary is absent (each spawn attempt fails with
\* binary-not-found), open_in_plasticity returns False, prints the manual
\* instructions with the design file path and the script file path, and
\* raises nothing.
C2_AllAbsentManual ==
    ( /\ Returned
      /\ AllCandidatesTried
      /\ \A i \in 1..Len(attempts) : attempts[i].outcome = "FileNotFoundError" )
    => (result = "False" /\ ManualWithPaths /\ ~raised)

\* ------------------------------------------------------------------- C3

\* C3: before the first spawn attempt, and at every later one, the design
\* JSON and the design script both exist, and the launcher itself wrote each
\* of the two that was absent when it was entered.
C3_ArtifactsBeforeSpawn ==
    (pc \in {"oip_spawn", "oip_wait"} \/ attempts # << >>) =>
        \A f \in {"design", "script"} :
            /\ files[f].exists
            /\ (~entryExists[f] => f \in launcherWrote)

C3_Witness ==
    /\ entry = "launcher"
    /\ impl = "integration"
    /\ attempts # << >>
    /\ ~entryExists["design"]
    /\ ~entryExists["script"]
    /\ launcherWrote = {"design", "script"}

\* ------------------------------------------------------------------- C4

\* C4: a binary-not-found or non-zero-exit error of one candidate is caught
\* for that candidate and the next candidate is attempted; the final failure
\* is reported with manual-recovery instructions exactly when all candidates
\* have failed; the error never leaves open_in_plasticity.
C4_PerCandidateFallthrough ==
    /\ ~raised
    /\ Returned =>
         /\ \A i \in 1..Len(attempts) :
              (attempts[i].outcome \in SpawnFailures /\ i < Len(Candidates(impl)))
                  => i < Len(attempts)
         /\ ( (AllCandidatesTried
               /\ \A i \in 1..Len(attempts) : attempts[i].outcome \in SpawnFailures)
              <=> ManualRecoveryPrinted )

\* ------------------------------------------------------------------- C5

\* C5: for both implementations open_in_plasticity returns True if and only
\* if some invocation made during the call exited with status 0.
C5_TrueIffExitZero ==
    Returned =>
        (result = "True" <=> \E i \in 1..Len(attempts) : attempts[i].outcome = "ok")

\* ------------------------------------------------------------------- C6

C7_NoExceptionEscapes ==
    /\ ~raised
    /\ (launcherWrote # {} \/ attempts # << >>) => pc # "crashed"
    /\ Returned =>
         /\ result \in {"True", "False"}
         /\ (~(\E i \in 1..Len(attempts) : attempts[i].outcome = "ok")
                => \/ Printed("error_opening")
                   \/ Printed("plasticity_not_found")
                   \/ Printed("could_not_launch"))

C7_Witness ==
    /\ Returned
    /\ result = "False"
    /\ ioFailed
    /\ launcherWrote # {}
    /\ attempts = << >>
    /\ Printed("error_opening")

\* ------------------------------------------------------------------- C8

\* C8: every spawn of either implementation has the argument vector
\* <binary, design file path>.
C8_ArgvIsBinaryThenDesign ==
    \A i \in 1..Len(attempts) :
        attempts[i].argv = << attempts[i].path, DesignFilePath(impl) >>

\* ------------------------------------------------------------------- C9

\* C9: in a run of main() a filesystem error of one emitter (or of creating
\* the output directory) is not fatal: the run does not end in an uncaught
\* exception and all three emitters are still attempted.
C9_SiblingsStillAttempted ==
    (entry = "main" /\ ioFailed /\ pc \in {"done", "crashed"}) =>
        (pc = "done" /\ attempted = FileNames)

\* ------------------------------------------------------------------ C10

C20_OtherSpawnErrorKeepsProbing ==
    (/\ impl = "integration"
     /\ Returned
     /\ result = "False"
     /\ \E i \in 1..Len(attempts) : attempts[i].outcome = "PermissionError")
        => AllCandidatesTried

\* ============================================================== emitters
\* The object and its methods called in any order: the three emitters and
\* open_in_plasticity of PlasticityEngineDesigner (either implementation) and
\* the diagram emitters of EngineVisualizer, over records drawn from a
\* bounded set.

Classes == Impls \cup {"visualizer"}

\* self.design_data of EngineVisualizer: no performance_metrics group.
VisualizerDesign(d) == VDict(SubSeq(d.items, 1, 5))

\* The record __init__ builds with other contents: an int where the literal
\* has a float, other magnitudes, and characters JSON escapes.
VariantDesign ==
    With(With(With(With(With(With(With(CanonicalDesign,
         "geometry", "chamber_diameter", VInt(3)),
         "geometry", "throat_diameter", VFloat(75, -2)),
         "geometry", "exit_diameter", VFloat(5, 0)),
         "materials", "chamber", VStr(<< "Alloy ", "\"", "X", "\\", "\n", "7" >>)),
         "specifications", "thrust", VInt(1234567)),
         "specifications", "efficiency", VFloat(876, -3)),
         "performance_metrics", "computation_speed", VFloat(273, 10))

Designs == {CanonicalDesign, VariantDesign}

\* The name that goes with each record at construction.
EngineNameOf(d) == IF d = CanonicalDesign THEN engine_name ELSE "X-2"

DiagramEmitters ==
    {"create_engine_3d_model", "create_performance_dashboard",
     "create_flow_diagram", "display_all_visualizations"}

SelfAfterRenaming(op, obj) ==
    [obj EXCEPT !.engine_name = "HB-NLP-REV-002"]

\* self after a method has run: the methods only read self.design_data and
\* self.engine_name (subscript loads and f-string interpolation, json.dump of
\* the dict); none stores to either attribute or to a key of the dict.
SelfAfter(op, obj) ==
    obj

\* The text create_design_file writes.
DesignText(obj) == JsonDump(obj.design_data)

ScriptLinesMarkingRewrites(i, obj) ==
    RenderScript(ScriptStatements(i, obj.design_data, obj.engine_name))
    \o (IF files["script"].exists THEN << "# regenerated" >> ELSE << >>)

\* The text generate_3d_model_script writes.
ScriptLines(i, obj) == RenderScript(ScriptStatements(i, obj.design_data, obj.engine_name))

\* The text create_design_summary writes.
SummaryLines(i, obj) == Summary(i, obj.design_data, obj.engine_name)

TextOf(i, obj, f) ==
    IF f = "design" THEN DesignText(obj)
    ELSE IF f = "script" THEN ScriptLines(i, obj)
    ELSE SummaryLines(i, obj)

MethodOf(f) ==
    IF f = "design" THEN "create_design_file"
    ELSE IF f = "script" THEN "generate_3d_model_script"
    ELSE "create_design_summary"

EInit ==
    /\ impl \in Classes
    /\ \E d \in Designs :
         self = [design_data |-> IF impl = "visualizer" THEN VisualizerDesign(d) ELSE d,
                 engine_name |-> EngineNameOf(d)]
    /\ constructed = self
    /\ files \in [FileNames -> {Absent, [exists |-> TRUE, data |-> StaleText]}]
    /\ ~files["summary"].exists
    /\ (impl = "visualizer" => \A f \in FileNames : ~files[f].exists)
    /\ scripts = {}
    /\ last = [op |-> "__init__", ok |-> TRUE]
    /\ display \in [images : [ImageNames -> {"absent", "old"}], failed : {NoFailure}]
    /\ (impl # "visualizer" => display = NoDisplay)
    /\ entry = "launcher"
    /\ run = 1
    /\ pc = "start"
    /\ dirExists = TRUE
    /\ console = << >>
    /\ attempts = << >>
    /\ proc = "none"
    /\ idx = 1
    /\ result = "none"
    /\ raised = FALSE
    /\ attempted = {}
    /\ ioFailed = FALSE
    /\ entryExists = [f \in FileNames |-> FALSE]
    /\ launcherWrote = {}
    /\ geom = NoCall

\* One emitter called on the object: it renders the text from self and
\* writes its file; the write succeeds or fails.
Emit(f) ==
    /\ impl \in Impls
    /\ LET text == TextOf(impl, self, f)
       IN  \E o \in WriteOutcomes, k \in 0..MaxPartial :
             /\ (o = "write_error" \/ k = 0)
             /\ files' = [files EXCEPT ![f] = WriteFile(files[f], text, o, k)]
             /\ last' = [op |-> MethodOf(f), ok |-> o = "ok"]
             /\ scripts' = IF f = "script" /\ o = "ok"
                           THEN scripts \cup {[by |-> MethodOf(f), text |-> files'[f].data]}
                           ELSE scripts
    /\ self' = SelfAfter(MethodOf(f), self)
    /\ UNCHANGED <<impl, constructed, launchVars, display, geom>>

CreateDesignFile == Emit("design")

GenerateScript == Emit("script")

CreateDesignSummary == Emit("summary")

\* open_in_plasticity as one call: it makes sure the design file and the
\* script exist (the first failed write ends the call with False), then
\* probes the candidates and returns True or False.
OpenInPlasticity ==
    /\ impl \in Impls
    /\ LET design == DesignText(self)
           script == ScriptLines(impl, self)
           needD  == NeedsCreate(impl, files["design"].exists)
       IN  \E od \in WriteOutcomes, kd \in 0..MaxPartial :
             /\ (od = "write_error" \/ kd = 0)
             /\ (~needD => od = "ok")
             /\ LET f1    == IF needD
                             THEN [files EXCEPT !["design"] =
                                      WriteFile(files["design"], design, od, kd)]
                             ELSE files
                    needS == od = "ok" /\ NeedsCreate(impl, f1["script"].exists)
                IN  \E os \in WriteOutcomes, ks \in 0..MaxPartial :
                      /\ (os = "write_error" \/ ks = 0)
                      /\ (~needS => os = "ok")
                      /\ LET f2 == IF needS
                                   THEN [f1 EXCEPT !["script"] =
                                            WriteFile(f1["script"], script, os, ks)]
                                   ELSE f1
                         IN  /\ files' = f2
                             /\ scripts' = IF needS /\ os = "ok"
                                           THEN scripts \cup
                                                {[by |-> "open_in_plasticity",
                                                  text |-> f2["script"].data]}
                                           ELSE scripts
                             /\ \E r \in BOOLEAN :
                                  /\ (od # "ok" \/ os # "ok" => ~r)
                                  /\ last' = [op |-> "open_in_plasticity", ok |-> r]
    /\ self' = SelfAfter("open_in_plasticity", self)
    /\ UNCHANGED <<impl, constructed, launchVars, display, geom>>

\* A diagram emitter of EngineVisualizer called on its own: it draws the
\* figure from self.design_data and returns it, or fails; it saves nothing.
EmitDiagram ==
    /\ impl = "visualizer"
    /\ \E op \in DiagramEmitters \ {"display_all_visualizations"}, ok \in BOOLEAN :
        /\ last' = [op |-> op, ok |-> ok]
        /\ self' = SelfAfter(op, self)
    /\ UNCHANGED <<impl, constructed, files, scripts, launchVars, display, geom>>

\* display_all_visualizations as one call.  The steps before the one that
\* raises (there may be none that does) have taken effect: an image whose
\* save was reached and completed is new; the image whose save raised is as
\* it was or left incomplete; every other image is as it was.
DisplayAllVisualizations ==
    /\ impl = "visualizer"
    /\ \E stop \in 1..(Len(DisplaySteps) + 1), incomplete \in BOOLEAN :
         LET failed == IF stop > Len(DisplaySteps) THEN NoFailure ELSE DisplaySteps[stop]
             saved(n) == \E i \in 1..(stop - 1) : DisplaySteps[i] = [do |-> "save", of |-> n]
         IN  /\ incomplete => failed.do = "save"
             /\ display' =
                   [images |-> [n \in ImageNames |->
                                  IF saved(n) THEN "new"
                                  ELSE IF incomplete /\ failed.of = n THEN "partial"
                                  ELSE display.images[n]],
                    failed |-> failed]
             /\ last' = [op |-> "display_all_visualizations", ok |-> failed = NoFailure]
    /\ self' = SelfAfter("display_all_visualizations", self)
    /\ UNCHANGED <<impl, constructed, files, scripts, launchVars, geom>>

ENext ==
    \/ CreateDesignFile
    \/ GenerateScript
    \/ CreateDesignSummary
    \/ OpenInPlasticity
    \/ EmitDiagram
    \/ DisplayAllVisualizations

EmitSpec == EInit /\ [][ENext]_vars

\* ======================================================= geometry sampler
\* Binary floating point with Precision significant bits, round to nearest,
\* ties to even, and no exponent limit: a float is m * 2^e with m odd (or
\* zero).  The arithmetic of create_cylinder and create_cone is carried out
\* in it operation by operation; cos and sin stay symbolic.

Precision == 4

MaxScale == 3

MaxResolution == 4

RECURSIVE Pow2(_)
Pow2(k) == IF k = 0 THEN 1 ELSE 2 * Pow2(k - 1)

RECURSIVE BitLen(_)
BitLen(n) == IF n = 0 THEN 0 ELSE 1 + BitLen(n \div 2)

Abs(n) == IF n < 0 THEN -n ELSE n

RECURSIVE FNorm(_, _)
FNorm(m, e) ==
    IF m = 0 THEN [m |-> 0, e |-> 0]
    ELSE IF m % 2 = 0 THEN FNorm(m \div 2, e + 1)
    ELSE [m |-> m, e |-> e]

\* The float nearest to m * 2^e (plus a nonzero remainder below the last
\* bit of m when sticky).
RoundTo(m, e, sticky) ==
    LET a == Abs(m)
        s == BitLen(a) - Precision
    IN  IF s <= 0 THEN FNorm(m, e)
        ELSE LET q    == a \div Pow2(s)
                 r    == a % Pow2(s)
                 half == Pow2(s - 1)
                 up   == r > half \/ (r = half /\ (sticky \/ q % 2 = 1))
                 n    == IF up THEN q + 1 ELSE q
             IN  FNorm(IF m < 0 THEN -n ELSE n, e + s)

Min(a, b) == IF a <= b THEN a ELSE b

\* x + y without rounding, as an integer multiple of 2^e.
ExactSum(x, y) ==
    LET e == Min(x.e, y.e)
    IN  [m |-> x.m * Pow2(x.e - e) + y.m * Pow2(y.e - e), e |-> e]

\* The values that are not numbers or not finite.  A finite float is kept
\* normalised (m odd, or m = 0 with e = 0), so these triples stand for
\* nothing else.  Zero carries no sign.
NaN == [m |-> 0, e |-> 1]

Inf == [m |-> 2, e |-> 0]

FNeg(x) == [m |-> -x.m, e |-> x.e]

IsInf(x) == x = Inf \/ x = FNeg(Inf)

\* inf + (-inf) is nan; any other sum with an infinity is that infinity.
FAdd(x, y) ==
    IF x = NaN \/ y = NaN THEN NaN
    ELSE IF IsInf(x) THEN (IF IsInf(y) /\ y # x THEN NaN ELSE x)
    ELSE IF IsInf(y) THEN y
    ELSE RoundTo(ExactSum(x, y).m, ExactSum(x, y).e, FALSE)

FSub(x, y) == FAdd(x, FNeg(y))

\* inf * 0 is nan; any other product with an infinity is an infinity.
FMul(x, y) ==
    IF x = NaN \/ y = NaN THEN NaN
    ELSE IF IsInf(x) \/ IsInf(y)
         THEN (IF x.m = 0 \/ y.m = 0 THEN NaN
               ELSE IF (x.m < 0) # (y.m < 0) THEN FNeg(Inf) ELSE Inf)
    ELSE RoundTo(x.m * y.m, x.e + y.e, FALSE)

\* x / y as numpy divides arrays: 0 / 0 and inf / inf are nan and a nonzero
\* x over 0 is an infinity, with a warning and no exception; otherwise the
\* quotient to 2 * Precision + 2 further bits, the remainder as the sticky
\* bit.
FDiv(x, y) ==
    IF x = NaN \/ y = NaN THEN NaN
    ELSE IF IsInf(x)
         THEN (IF IsInf(y) THEN NaN
               ELSE IF (x.m < 0) # (y.m < 0) THEN FNeg(Inf) ELSE Inf)
    ELSE IF IsInf(y) THEN FNorm(0, 0)
    ELSE IF y.m = 0
         THEN (IF x.m = 0 THEN NaN ELSE IF x.m < 0 THEN FNeg(Inf) ELSE Inf)
    ELSE LET k == 2 * Precision + 2
             n == Abs(x.m) * Pow2(k)
             q == n \div Abs(y.m)
             r == n % Abs(y.m)
         IN  RoundTo(IF (x.m < 0) # (y.m < 0) THEN -q ELSE q, x.e - y.e - k, r # 0)

Zero == [m |-> 0, e |-> 0]

One == [m |-> 1, e |-> 0]

Two == [m |-> 1, e |-> 1]

FrustumRadiusFromTop(base_radius, top_radius, height, z) ==
    FAdd(top_radius, FMul(FSub(base_radius, top_radius), FDiv(z, height)))

\* radius = base_radius + (top_radius - base_radius) * (z_grid / height)
FrustumRadius(base_radius, top_radius, height, z) ==
    FAdd(base_radius, FMul(FSub(top_radius, base_radius), FDiv(z, height)))

\* An angle as a fraction of the full turn: 2 * pi * k / of.
Angle(k, of) == [k |-> k, of |-> of]

LinspaceHalfOpen(n) ==
    [j \in 1..n |-> Angle(j - 1, n)]

\* np.linspace(0, 2*np.pi, n): n samples with both ends included, step
\* 2*pi/(n-1); a single sample is the start.
Linspace(n) ==
    [j \in 1..n |-> IF n = 1 THEN Angle(0, 1) ELSE Angle(j - 1, n - 1)]

\* np.linspace(0, height, 2)
Levels(height) == << Zero, height >>

\* np.meshgrid(theta, z): one row per level, one column per angle.
Meshgrid(theta, z) ==
    [i \in 1..Len(z) |-> [j \in 1..Len(theta) |-> [theta |-> theta[j], z |-> z[i]]]]

\* radius * np.cos(theta) + offset (np.sin for y)
Circle(radius, fn, theta, offset) ==
    [radius |-> radius, fn |-> fn, theta |-> theta, offset |-> offset]

create_cylinder(radius, height, x_offset, y_offset, z_offset, resolution) ==
    LET grid == Meshgrid(Linspace(resolution), Levels(height))
    IN  [i \in 1..Len(grid) |-> [j \in 1..Len(grid[i]) |->
           [x |-> Circle(radius, "cos", grid[i][j].theta, x_offset),
            y |-> Circle(radius, "sin", grid[i][j].theta, y_offset),
            z |-> FAdd(grid[i][j].z, z_offset)]]]

create_cone(base_radius, top_radius, height, x_offset, y_offset, z_offset, resolution) ==
    LET grid == Meshgrid(Linspace(resolution), Levels(height))
        radius(i, j) == FrustumRadius(base_radius, top_radius, height, grid[i][j].z)
    IN  [i \in 1..Len(grid) |-> [j \in 1..Len(grid[i]) |->
           [x |-> Circle(radius(i, j), "cos", grid[i][j].theta, x_offset),
            y |-> Circle(radius(i, j), "sin", grid[i][j].theta, y_offset),
            z |-> FAdd(grid[i][j].z, z_offset)]]]

\* resolution=20, the default of create_cylinder and create_cone.
DefaultResolution == 20

\* The float a number of the record or a literal of the source denotes: the
\* float nearest to the decimal m * 10^e.
PyFloat(v) ==
    LET d == Num(v)
    IN  IF d.e >= 0 THEN RoundTo(d.m * Pow10(d.e), 0, FALSE)
        ELSE FDiv([m |-> d.m, e |-> 0], [m |-> Pow10(-d.e), e |-> 0])

\* The surfaces create_engine_3d_model hands to plot_surface, by label.
create_engine_3d_model(obj) ==
    LET geometry == Get(obj.design_data, "geometry")
        g(key)   == PyFloat(Get(geometry, key))
        lit(m, e) == PyFloat(VFloat(m, e))
    IN  [Chamber |->
            create_cylinder(FDiv(g("chamber_diameter"), Two), g("chamber_length"),
                            Zero, Zero, Zero, DefaultResolution),
         Throat |->
            create_cylinder(FDiv(g("throat_diameter"), Two), lit(5, -1),
                            Zero, Zero, g("chamber_length"), DefaultResolution),
         Nozzle |->
            create_cone(FDiv(g("exit_diameter"), Two), FDiv(g("throat_diameter"), Two),
                        g("nozzle_length"), Zero, Zero,
                        FAdd(g("chamber_length"), lit(5, -1)), DefaultResolution),
         Injector |->
            create_cylinder(lit(3, -1), lit(8, -1), Zero, Zero,
                            FDiv(g("chamber_length"), Two), DefaultResolution),
         Turbopump |->
            create_cylinder(lit(4, -1), lit(12, -1),
                            FAdd(FDiv(g("chamber_diameter"), Two), lit(5, -1)), Zero,
                            FDiv(g("chamber_length"), Two), DefaultResolution)]

\* The non-negative floats with exponent -MaxScale..0.
Floats == {FNorm(m, e) : m \in 0..(Pow2(Precision) - 1), e \in (-MaxScale)..0}

\* Radii on the finest grid only.
FineFloats == {FNorm(m, -MaxScale) : m \in 0..(Pow2(Precision) - 1)}

Heights == {One, FNorm(3, -1), FNorm(3, 1)}

\* The heights a surface is sampled with: the degenerate height 0 too.
SurfaceHeights == Heights \cup {Zero}

Offsets == {Zero, One, FNorm(-3, -2)}

Resolutions == 1..MaxResolution

Pending == << >>

\* The calls the sampler may receive.
RadiusCalls ==
    [fn : {"radius"}, base_radius : Floats, top_radius : Floats, height : Heights,
     at : {"bottom", "middle", "top"}, out : {Pending}]

ConeCalls ==
    [fn : {"create_cone"}, base_radius : FineFloats, top_radius : FineFloats,
     height : SurfaceHeights, x_offset : {Zero}, y_offset : {One},
     z_offset : {FNorm(-3, -2)}, resolution : Resolutions, out : {Pending}]

CylinderCalls ==
    [fn : {"create_cylinder"}, radius : Heights, height : SurfaceHeights,
     x_offset : Offsets, y_offset : Offsets, z_offset : Offsets,
     resolution : Resolutions, out : {Pending}]

SceneCalls == [fn : {"create_engine_3d_model"}, out : {Pending}]

\* The axial position a radius is asked at: 0, height / 2 or height.
ZAt(c) ==
    IF c.at = "bottom" THEN Zero
    ELSE IF c.at = "middle" THEN FDiv(c.height, Two)
    ELSE c.height

GInit ==
    /\ geom \in RadiusCalls \cup ConeCalls \cup CylinderCalls \cup SceneCalls
    /\ impl = "visualizer"
    /\ \E d \in Designs :
          /\ geom \notin SceneCalls => d = CanonicalDesign
          /\ self = [design_data |-> VisualizerDesign(d),
                     engine_name |-> EngineNameOf(d)]
    /\ constructed = self
    /\ files = [f \in FileNames |-> Absent]
    /\ scripts = {}
    /\ last = [op |-> "__init__", ok |-> TRUE]
    /\ display = NoDisplay
    /\ entry = "launcher"
    /\ run = 1
    /\ pc = "start"
    /\ dirExists = TRUE
    /\ console = << >>
    /\ attempts = << >>
    /\ proc = "none"
    /\ idx = 1
    /\ result = "none"
    /\ raised = FALSE
    /\ attempted = {}
    /\ ioFailed = FALSE
    /\ entryExists = [f \in FileNames |-> FALSE]
    /\ launcherWrote = {}

\* The radius expression of create_cone evaluated at one axial position.
EvalRadius ==
    /\ geom.fn = "radius"
    /\ geom.out = Pending
    /\ geom' = [geom EXCEPT !.out =
                   FrustumRadius(geom.base_radius, geom.top_radius, geom.height,
                                 ZAt(geom))]
    /\ UNCHANGED <<impl, files, launchVars, emitVars>>

CreateCone ==
    /\ geom.fn = "create_cone"
    /\ geom.out = Pending
    /\ geom' = [geom EXCEPT !.out =
                   create_cone(geom.base_radius, geom.top_radius, geom.height,
                               geom.x_offset, geom.y_offset, geom.z_offset,
                               geom.resolution)]
    /\ UNCHANGED <<impl, files, launchVars, emitVars>>

CreateCylinder ==
    /\ geom.fn = "create_cylinder"
    /\ geom.out = Pending
    /\ geom' = [geom EXCEPT !.out =
                   create_cylinder(geom.radius, geom.height, geom.x_offset,
                                   geom.y_offset, geom.z_offset, geom.resolution)]
    /\ UNCHANGED <<impl, files, launchVars, emitVars>>

CreateEngine3dModel ==
    /\ geom.fn = "create_engine_3d_model"
    /\ geom.out = Pending
    /\ geom' = [geom EXCEPT !.out = create_engine_3d_model(self)]
    /\ UNCHANGED <<impl, files, launchVars, emitVars>>

GNext ==
    \/ EvalRadius
    \/ CreateCone
    \/ CreateCylinder
    \/ CreateEngine3dModel

GeomSpec == GInit /\ [][GNext]_vars

\* ------------------------------------------------------- claim vocabulary

Succeeded(op) == last = [op |-> op, ok |-> TRUE]

Canonical == self.design_data = CanonicalDesign

Variant == self.design_data = VariantDesign

\* ------------------------------------------------------------------ C11

\* C11: for every record, parsing the JSON text that create_design_file has
\* written yields a record equal to design_data: the same keys at every
\* nesting level and an equal value (same type, same number or string) for
\* every key.
C11_JsonRoundTrip ==
    Succeeded("create_design_file") =>
        LET parsed == JsonLoad(files["design"].data)
        IN  /\ parsed = self.design_data
            /\ Keys(parsed) = Keys(self.design_data)
            /\ \A i \in 1..Len(parsed.items) :
                 /\ parsed.items[i].v.t = self.design_data.items[i].v.t
                 /\ Keys(parsed.items[i].v) = Keys(self.design_data.items[i].v)

C11_Witness ==
    /\ Succeeded("create_design_file")
    /\ Variant
    /\ JsonLoad(files["design"].data) # VError

\* ------------------------------------------------------------------ C17

\* C17: the design file create_design_file has written has exactly the
\* top-level keys name, version, specifications, geometry, materials,
\* performance_metrics in that order, and each nested object has exactly the
\* fields of its data-model group in the data model's order, on every call.
C17_KeyOrder ==
    Succeeded("create_design_file") =>
        LET parsed == JsonLoad(files["design"].data)
        IN  /\ parsed.t = "dict"
            /\ Keys(parsed) = << "name", "version", "specifications", "geometry",
                                 "materials", "performance_metrics" >>
            /\ parsed.items[1].v.t = "str"
            /\ parsed.items[2].v.t = "str"
            /\ Keys(parsed.items[3].v) =
                 << "thrust", "specific_impulse", "chamber_pressure",
                    "expansion_ratio", "efficiency", "technology_readiness_level" >>
            /\ Keys(parsed.items[4].v) =
                 << "chamber_diameter", "chamber_length", "throat_diameter",
                    "exit_diameter", "nozzle_length", "expansion_angle" >>
            /\ Keys(parsed.items[5].v) = << "chamber", "nozzle", "injector", "turbopump" >>
            /\ Keys(parsed.items[6].v) =
                 << "cfd_convergence", "hardware_utilization", "computation_speed",
                    "memory_usage", "temperature", "power_consumption" >>

C17_Witness ==
    /\ Succeeded("create_design_file")
    /\ Canonical
    /\ impl = "root"
    /\ Len(files["design"].data) > Len(StaleText)

\* ------------------------------------------------------------------ C12

Statements == ScriptStatements(impl, self.design_data, self.engine_name)

\* The builder statement assigned to a name, and the text of an argument.
Builder(name) ==
    Statements[CHOOSE i \in 1..Len(Statements) :
                   Statements[i].kind = "builder" /\ Statements[i].target = name]

ArgText(st, k) == st.args[CHOOSE j \in 1..Len(st.args) : st.args[j].k = k].v

\* Twice the number an argument text denotes.
Twice(cs) ==
    LET x == Num(ParseNumber(cs).v)
    IN  DecNorm(2 * x.m, x.e)

Geometry(key) == Get(Get(self.design_data, "geometry"), key)

FollowedBy(f, a, b) ==
    \E i \in 1..(Len(files[f].data) - 1) :
        files[f].data[i] = a /\ files[f].data[i + 1] = b

\* C13: in the script generate_3d_model_script has written, the chamber
\* cylinder has radius chamber_diameter/2 and height chamber_length, the
\* throat cylinder radius throat_diameter/2, and the cone base_radius
\* exit_diameter/2, top_radius throat_diameter/2 and height nozzle_length;
\* for the canonical record these read 1.25, 0.4 and 2.0, 0.4, 6.0.
C13_RadiiAreHalfDiameters ==
    Succeeded("generate_3d_model_script") =>
        /\ files["script"].data = RenderScript(Statements)
        /\ Builder("chamber").fn = "create_cylinder"
        /\ Twice(ArgText(Builder("chamber"), "radius")) = Num(Geometry("chamber_diameter"))
        /\ ArgText(Builder("chamber"), "height") = PyStr(Geometry("chamber_length"))
        /\ Builder("throat").fn = "create_cylinder"
        /\ Twice(ArgText(Builder("throat"), "radius")) = Num(Geometry("throat_diameter"))
        /\ Builder("nozzle").fn = "create_cone"
        /\ Twice(ArgText(Builder("nozzle"), "base_radius")) = Num(Geometry("exit_diameter"))
        /\ Twice(ArgText(Builder("nozzle"), "top_radius")) = Num(Geometry("throat_diameter"))
        /\ ArgText(Builder("nozzle"), "height") = PyStr(Geometry("nozzle_length"))
        /\ Canonical =>
             /\ FollowedBy("script", "chamber = create_cylinder(", "    radius=1.25,")
             /\ FollowedBy("script", "throat = create_cylinder(", "    radius=0.4,")
             /\ FollowedBy("script", "nozzle = create_cone(", "    base_radius=2.0,")
             /\ FollowedBy("script", "    base_radius=2.0,", "    top_radius=0.4,")
             /\ FollowedBy("script", "    top_radius=0.4,", "    height=6.0,")

C13_Witness ==
    /\ Succeeded("generate_3d_model_script")
    /\ Canonical
    /\ impl = "integration"
    /\ FollowedBy("script", "chamber = create_cylinder(", "    radius=1.25,")

\* ------------------------------------------------------------------ C14

IsStep(st) == st.kind \notin {"comment", "blank"}

PrimitiveOrder == << "chamber", "throat", "nozzle", "injector", "turbopump" >>

\* C14: the script of every implementation is, in order, one builder
\* statement per primitive (chamber, throat, nozzle, injector, turbopump),
\* exactly one assembly statement listing those five, and exactly two export
\* statements naming <engine_name>_3d_model.stl and <engine_name>_3d_model.step,
\* with nothing else among its steps.
C14_OrderedSteps ==
    Succeeded("generate_3d_model_script") =>
        LET steps == SelectSeq(Statements, IsStep)
        IN  /\ files["script"].data = RenderScript(Statements)
            /\ Len(steps) = 8
            /\ \A i \in 1..5 :
                 steps[i].kind = "builder" /\ steps[i].target = PrimitiveOrder[i]
            /\ steps[6].kind = "assembly"
            /\ [j \in 1..Len(steps[6].args) |-> Join(steps[6].args[j].v)] = PrimitiveOrder
            /\ steps[7].kind = "export"
            /\ Join(steps[7].args[Len(steps[7].args)].v)
                 = "\"" \o self.engine_name \o "_3d_model.stl\""
            /\ steps[8].kind = "export"
            /\ Join(steps[8].args[Len(steps[8].args)].v)
                 = "\"" \o self.engine_name \o "_3d_model.step\""

\* ------------------------------------------------------------------ C18

HasLine(f, line) == \E i \in 1..Len(files[f].data) : files[f].data[i] = line

\* C18: in the markdown create_design_summary has written, thrust 2000000
\* reads "2,000,000 N (2.0 MN)", efficiency 0.95 reads "95.0%" and
\* computation_speed 1.5e12 reads "1.5 TFLOPS"; the same conversions give
\* "1,234,567 N (1.2 MN)", "87.6%" and "2.7 TFLOPS" for 1234567, 0.876 and
\* 2.73e12.
C18_SummaryConversions ==
    Succeeded("create_design_summary") =>
        /\ Canonical =>
             /\ HasLine("summary", "- **Thrust**: 2,000,000 N (2.0 MN)")
             /\ HasLine("summary", "- **Efficiency**: 95.0%")
             /\ HasLine("summary", "- **Computation Speed**: 1.5 TFLOPS")
        /\ Variant =>
             /\ HasLine("summary", "- **Thrust**: 1,234,567 N (1.2 MN)")
             /\ HasLine("summary", "- **Efficiency**: 87.6%")
             /\ HasLine("summary", "- **Computation Speed**: 2.7 TFLOPS")

C18_Witness ==
    /\ Succeeded("create_design_summary")
    /\ Canonical
    /\ HasLine("summary", "- **Thrust**: 2,000,000 N (2.0 MN)")

\* ------------------------------------------------------------------ C19

\* C19: after any sequence of calls of the emitters, open_in_plasticity and
\* the diagram emitters, each succeeding or failing, design_data and
\* engine_name equal their values right after __init__.
C19_NeverMutated ==
    /\ self.design_data = constructed.design_data
    /\ self.engine_name = constructed.engine_name

C19_Witness ==
    \/ /\ last = [op |-> "open_in_plasticity", ok |-> FALSE]
       /\ scripts # {}
       /\ files["summary"].exists
       /\ self = constructed
    \/ /\ last = [op |-> "display_all_visualizations", ok |-> FALSE]
       /\ self = constructed

\* ------------------------------------------------------------------ C15

Returned15(fn) == geom.fn = fn /\ geom.out # Pending

\* top_radius - base_radius is a float: the subtraction does not round.
ExactDifference ==
    LET d == ExactSum(geom.top_radius, FNeg(geom.base_radius))
    IN  RoundTo(d.m, d.e, FALSE) = FNorm(d.m, d.e)

\* The unit in the last place of the larger of the two radii.
UlpOfLarger ==
    LET big == IF ExactSum(geom.base_radius, FNeg(geom.top_radius)).m >= 0
               THEN geom.base_radius ELSE geom.top_radius
    IN  [m |-> 1, e |-> big.e + BitLen(big.m) - Precision]

\* |x - y| <= u for floats (or exact sums) x, y and a power of two u.
Within(x, y, u) ==
    LET d == ExactSum(x, FNeg(y))
        e == Min(d.e, u.e)
    IN  Abs(d.m) * Pow2(d.e - e) <= u.m * Pow2(u.e - e)

\* (base_radius + top_radius) / 2 without rounding.
ExactMiddle ==
    LET s == ExactSum(geom.base_radius, geom.top_radius)
    IN  [m |-> s.m, e |-> s.e - 1]

\* The radius every point of a grid row carries, if it is one radius.
RowRadius(i) == geom.out[i][1].x.radius

RowIsUniform(i) ==
    \A j \in 1..Len(geom.out[i]) :
        geom.out[i][j].x.radius = RowRadius(i) /\ geom.out[i][j].y.radius = RowRadius(i)

SameDirection(a, b) == (a.k * b.of - b.k * a.of) % (a.of * b.of) = 0

\* The angle of column j, read from the top row.
Theta(j) == geom.out[1][j].x.theta

\* Every point is (radius*cos(angle) + x_offset, radius*sin(angle) +
\* y_offset, level + z_offset), with one angle per column and the levels 0
\* and height.
PointsOnCircle ==
    /\ Len(geom.out) = 2
    /\ \A i \in 1..2 :
         /\ Len(geom.out[i]) = geom.resolution
         /\ \A j \in 1..geom.resolution :
              /\ geom.out[i][j].x = Circle(geom.radius, "cos", Theta(j), geom.x_offset)
              /\ geom.out[i][j].y = Circle(geom.radius, "sin", Theta(j), geom.y_offset)
              /\ geom.out[i][j].z =
                   FAdd(IF i = 1 THEN Zero ELSE geom.height, geom.z_offset)

\* C16 as stated: the n angles are 2*pi*k/n, k = 0..n-1, over the half-open
\* interval: 2*pi is not sampled and no two angles denote the same direction.
C16_HalfOpenSweep ==
    Returned15("create_cylinder") =>
        /\ PointsOnCircle
        /\ \A j \in 1..geom.resolution :
             /\ Theta(j).k * geom.resolution = (j - 1) * Theta(j).of
             /\ Theta(j).k < Theta(j).of
        /\ \A j, l \in 1..geom.resolution :
             j # l => ~SameDirection(Theta(j), Theta(l))

\* C16 (amended): create_cylinder returns a 2 x n grid whose n angles are
\* evenly spaced over the closed interval [0, 2*pi]: angle k is
\* 2*pi*k/(n-1) for n >= 2 (the single angle 0 for n = 1), so the first and
\* the last column denote the same direction and there are n-1 distinct
\* directions; the rows lie at levels 0 and height and every point is
\* (radius*cos(angle) + x_offset, radius*sin(angle) + y_offset,
\* level + z_offset).  create_cone sweeps the same angles.
C16_ClosedSweep ==
    /\ Returned15("create_cylinder") => PointsOnCircle
    /\ (Returned15("create_cylinder") \/ Returned15("create_cone")) =>
         LET n == geom.resolution
         IN  /\ Len(geom.out) = 2
             /\ Len(geom.out[1]) = n
             /\ Theta(1).k = 0
             /\ \A j \in 1..n : geom.out[2][j].x.theta = Theta(j)
             /\ n >= 2 =>
                  /\ \A j \in 1..n :
                       Theta(j).k * (n - 1) = (j - 1) * Theta(j).of
                  /\ Theta(n).k = Theta(n).of
                  /\ SameDirection(Theta(1), Theta(n))
                  /\ \A j, l \in 1..(n - 1) :
                       j # l => ~SameDirection(Theta(j), Theta(l))

C16_Witness ==
    /\ Returned15("create_cylinder")
    /\ geom.resolution >= 3
    /\ geom.z_offset # Zero
    /\ SameDirection(Theta(1), Theta(geom.resolution))

\* ------------------------------------------------------------------ C21

\* C21: whenever the integration launcher has reached a spawn attempt, the
\* design file handed to the application holds exactly the current
\* serialization of design_data and the script file exactly the current
\* script text, whatever the files held when the launcher was entered.
C21_SpawnedFilesAreCurrent ==
    (impl = "integration" /\ attempts # << >>) =>
        /\ files["design"] = [exists |-> TRUE, data |-> Content(impl, "design")]
        /\ files["script"] = [exists |-> TRUE, data |-> Content(impl, "script")]

\* ------------------------------------------------------------------ C22

IsNumber(x) == x # NaN /\ ~IsInf(x)

\* C22 as stated: with height = 0 create_cylinder and create_cone return two
\* rows that coincide at z = z_offset, every coordinate is a number, and the
\* radius create_cone uses at height 0 is base_radius.
C22_ZeroHeightWellDefined ==
    ((Returned15("create_cylinder") \/ Returned15("create_cone"))
        /\ geom.height = Zero) =>
        /\ Len(geom.out) = 2
        /\ \A i \in 1..2 : \A j \in 1..Len(geom.out[i]) :
             /\ geom.out[i][j].z = geom.z_offset
             /\ IsNumber(geom.out[i][j].x.radius) /\ IsNumber(geom.out[i][j].x.offset)
             /\ IsNumber(geom.out[i][j].y.radius) /\ IsNumber(geom.out[i][j].y.offset)
        /\ Returned15("create_cone") =>
             \A i \in 1..2 : RowIsUniform(i) /\ RowRadius(i) = geom.base_radius

\* ------------------------------------------------------------------ C24

\* The z every point of row i of a surface has, if it is one z.
RowZ(surface, i) == surface[i][1].z

RowAt(surface, i, z, radius) ==
    \A j \in 1..Len(surface[i]) :
        /\ surface[i][j].z = z
        /\ surface[i][j].x.radius = radius
        /\ surface[i][j].y.radius = radius

\* C24 as stated: in the scene of create_engine_3d_model the throat starts
\* where the chamber ends (z = chamber_length), the nozzle starts where the
\* throat ends (z = chamber_length + 0.5), the nozzle's radius at that
\* junction is throat_diameter / 2 and at its far end exit_diameter / 2.
C24_ContinuousProfile ==
    Returned15("create_engine_3d_model") =>
        LET geometry == Get(self.design_data, "geometry")
            chamber_length == PyFloat(Get(geometry, "chamber_length"))
            throat_radius  == FDiv(PyFloat(Get(geometry, "throat_diameter")), Two)
            exit_radius    == FDiv(PyFloat(Get(geometry, "exit_diameter")), Two)
            junction       == FAdd(chamber_length, PyFloat(VFloat(5, -1)))
            scene          == geom.out
        IN  /\ RowZ(scene.Chamber, 2) = chamber_length
            /\ RowAt(scene.Throat, 1, chamber_length, throat_radius)
            /\ RowAt(scene.Throat, 2, junction, throat_radius)
            /\ RowAt(scene.Nozzle, 1, junction, throat_radius)
            /\ RowAt(scene.Nozzle, 2, RowZ(scene.Nozzle, 2), exit_radius)

\* The axial part of C24 alone: the z-ranges of chamber, throat and nozzle
\* follow one another without gap or overlap.
ContinuousInZ ==
    Returned15("create_engine_3d_model") =>
        LET scene == geom.out
        IN  /\ RowZ(scene.Throat, 1) = RowZ(scene.Chamber, 2)
            /\ RowZ(scene.Nozzle, 1) = RowZ(scene.Throat, 2)

\* The nozzle as drawn: exit_diameter / 2 at the throat junction.
NozzleInverted ==
    /\ Returned15("create_engine_3d_model")
    /\ geom.out.Nozzle[1][1].x.radius =
          FDiv(PyFloat(Get(Get(self.design_data, "geometry"), "exit_diameter")), Two)

\* ------------------------------------------------------------------ C23

\* display_all_visualizations was called and one diagram's step raised.
DiagramFailed ==
    /\ last.op = "display_all_visualizations"
    /\ display.failed.do \in {"render", "save"}

\* C23 as stated: when rendering or saving one of the three diagrams fails
\* in display_all_visualizations, the image files of the other two are
\* written all the same.
C23_ImagesIndependent ==
    DiagramFailed =>
        \A n \in ImageNames \ {display.failed.of} : display.images[n] = "new"

====
